---- MODULE Spec2Model ----
(***************************************************************************)
(* IronSourceAtomTracker (ironsource/atom/ironsource_atom_tracker.py):     *)
(* track() -> backlog -> _tracker_handler (per-stream buffers, threshold   *)
(* and signal flushes) -> BatchEventPool -> _flush_data (retry, requeue).  *)
(*                                                                         *)
(* A payload is the serialized data string of one track() call, kept as    *)
(* its identity (the number of the accepted track() call) and its length   *)
(* in utf8 bytes.  The thresholds and retry_max_count are constructor      *)
(* arguments: they are chosen in Init and no setter is called afterwards.  *)
(***************************************************************************)
EXTENDS Integers, Sequences, FiniteSets, TLC

\* ------------------------------------------------------------------ bounds
MaxTrack == 3
MaxBacklog == 2
MaxPool == 2
MaxBatchSize == 2
MaxRetry == 2
QuietTrack == 5
MaxQuietBatch == 3
BytesUnreached == 6
DeliveryTrack == 2
StopTrack == 2
MaxAttempt == 20
Grain == 4

Streams == {"A", "B"}
DataSizes == {1, 3}
AuthArgs == {"", "k1"}
Workers == {1}
BatchSizes == 1..MaxBatchSize
BatchBytesSizes == {3}
RetryCounts == 0..MaxRetry
RetryMaxTimes == {0, 1000, 60000}
BackoffBases == {1, 500}

\* status codes the HTTP session can answer with, and its failures
Statuses == {200, 399, 400, 499, 500}
Failures == {"ConnectionError", "RequestException", "Exception"}
Answered(s) == [kind |-> "status", status |-> s]
Failed(f) == [kind |-> f, status |-> 0]
SessionOutcomes ==
    {Answered(s) : s \in Statuses \cup {503}} \cup {Failed(f) : f \in Failures}
CallbackOutcomes == {"ok", "TypeError", "raise"}

NoTask == [id |-> 0, stream |-> "", auth_key |-> "", data |-> <<>>, list |-> ""]

VARIABLES
    stream_keys,      \* self._stream_keys: the ordered dict, as a sequence of [stream, key]
    backlog,          \* self._event_backlog: per-stream FIFO of payloads
    n_tracked,        \* number of track() calls accepted so far (identity of payloads)
    submitted,        \* history, per stream: number of records track() queued
    last_auth,        \* history, per stream: the auth_key argument of the latest track()
    origin,           \* history: the stream of every record track() queued, by identity
    batch_size,       \* self._batch_size
    batch_bytes_size, \* self._batch_bytes_size
    retry_max_count,  \* self._retry_max_count
    retry_max_time,   \* self._retry_max_time
    backoff_base,     \* config.RETRY_EXPO_BACKOFF_BASE
    bo_attempt,       \* the attempt of the last _get_duration call, -1 before the first
    duration,         \* what the last _get_duration call returned
    is_run_worker,    \* self._is_run_worker
    is_flush_data,    \* self._is_flush_data
    is_flush_all,     \* self._is_flush_all
    events_buffer,    \* _tracker_handler's events_buffer (a dict: its domain grows)
    events_size,      \* _tracker_handler's events_size
    h_pc,             \* where _tracker_handler is
    h_i,              \* position of the running for loop in the dict
    h_n,              \* size of the dict when the running for loop started
    pool,             \* BatchEventPool: the queued tasks
    pool_running,     \* BatchEventPool: cleared by stop()
    w_pc,             \* per worker: where _flush_data is
    w_task,           \* per worker: the (stream, auth_key, data) its closure holds
    w_attempt,        \* per worker: _flush_data's attempt
    w_calls,          \* per worker: put_events calls made in the running delivery pass
    w_after,          \* per worker: where _error_log was called from
    w_status,         \* per worker: the status _error_log hands to the callback
    w_error,          \* per worker: the error_msg _error_log hands to the callback
    t_pc,             \* the _flush_peroidcly thread
    stop_pc,          \* the thread calling stop()
    stop_i,           \* stop()'s i
    n_at_stop,        \* history: the number of records accepted when stop() was called
    transport,        \* the behaviour of the remote endpoint: "any", "down", "recover"
    t_calls,          \* per task: calls the "recover" endpoint has answered (saturating)
    sig_pending,      \* history: _is_flush_all was raised and no flush-all pass began since
    created           \* history: every Delivery Task, in the order flush_data made them

vars == <<stream_keys, backlog, n_tracked, batch_size, batch_bytes_size, retry_max_count,
          is_run_worker, is_flush_data, is_flush_all, events_buffer, events_size,
          h_pc, h_i, h_n, pool, pool_running, w_pc, w_task, w_attempt, w_calls,
          w_after, w_status, w_error, t_pc, stop_pc, stop_i, transport, t_calls, submitted,
          sig_pending, created, last_auth, origin, n_at_stop, retry_max_time, backoff_base, bo_attempt, duration>>

producer_vars == <<stream_keys, backlog, n_tracked, submitted, last_auth, origin>>
backoff_vars == <<retry_max_time, backoff_base, bo_attempt, duration>>
config_vars == <<batch_size, batch_bytes_size, retry_max_count, transport, backoff_vars>>
handler_vars == <<events_buffer, events_size, h_pc, h_i, h_n>>
worker_vars == <<w_pc, w_task, w_attempt, w_calls, w_after, w_status, w_error>>
stop_vars == <<stop_pc, stop_i, n_at_stop>>
history_vars == <<t_calls, sig_pending>>

\* ----------------------------------------------------------------- helpers
RECURSIVE SumSizes(_)
SumSizes(seq) == IF seq = <<>> THEN 0 ELSE Head(seq).size + SumSizes(Tail(seq))

RECURSIVE TotalLen(_, _)
TotalLen(f, S) ==
    IF S = {} THEN 0
    ELSE LET s == CHOOSE x \in S : TRUE IN Len(f[s]) + TotalLen(f, S \ {s})

HasStream(keys, s) == \E i \in 1..Len(keys) : keys[i].stream = s

\* ------------------------------------------------------------ collaborators
\* IronSourceAtom.get_auth(): the globally configured credential
get_auth == "k0"

\* QueueEventStorage: bounded; add_event fails when it is full
backlog_full == TotalLen(backlog, Streams) >= MaxBacklog

\* QueueEventStorage.is_empty()
backlog_is_empty == \A s \in Streams : backlog[s] = <<>>

\* BatchEventPool.is_empty(): no queued and no in-flight work
pool_is_empty == pool = <<>> /\ \A w \in Workers : w_pc[w] = "idle"

\* BatchEventPool.add_event blocks while the queue is full
pool_has_room == Len(pool) < MaxPool

\* the state after __init__, lines 44-87, for the given constructor arguments
InitWith(batch_sizes, bytes_sizes, retry_counts, endpoint) ==
    /\ stream_keys = <<>>
    /\ backlog = [s \in Streams |-> <<>>]
    /\ n_tracked = 0
    /\ submitted = [s \in Streams |-> 0]
    /\ last_auth = [s \in Streams |-> "none"]
    /\ origin = <<>>
    /\ batch_size \in batch_sizes
    /\ batch_bytes_size \in bytes_sizes
    /\ retry_max_count \in retry_counts
    /\ is_run_worker = TRUE
    /\ is_flush_data = FALSE
    /\ is_flush_all = FALSE
    /\ events_buffer = [s \in {} |-> <<>>]
    /\ events_size = [s \in {} |-> 0]
    /\ h_pc = "loop"
    /\ h_i = 0
    /\ h_n = 0
    /\ pool = <<>>
    /\ pool_running = TRUE
    /\ w_pc = [w \in Workers |-> "idle"]
    /\ w_task = [w \in Workers |-> NoTask]
    /\ w_attempt = [w \in Workers |-> 0]
    /\ w_calls = [w \in Workers |-> 0]
    /\ w_after = [w \in Workers |-> "none"]
    /\ w_status = [w \in Workers |-> 0]
    /\ w_error = [w \in Workers |-> "none"]
    /\ t_pc = "sleep"
    /\ stop_pc = "idle"
    /\ stop_i = 0
    /\ n_at_stop = 0
    /\ transport = endpoint
    /\ t_calls = <<>>
    /\ sig_pending = FALSE
    /\ created = <<>>
    /\ bo_attempt = -1
    /\ duration = 0

\* the retry_max_time argument of __init__, line 66, and the configured base
BackoffWith(max_times, bases) ==
    /\ retry_max_time \in max_times
    /\ backoff_base \in bases

\* ------------------------------------------------------------------ track
\* lines 210-211: the credential track() goes on with
resolve(auth) == IF auth = "" THEN get_auth ELSE auth

register_overwrite(keys, s, k) ==
    IF HasStream(keys, s)
    THEN [i \in 1..Len(keys) |-> IF keys[i].stream = s THEN [stream |-> s, key |-> k]
                                 ELSE keys[i]]
    ELSE Append(keys, [stream |-> s, key |-> k])

\* lines 217-218: the stream is registered when it is not in the dict yet
register(keys, s, k) ==
    IF HasStream(keys, s) THEN keys ELSE Append(keys, [stream |-> s, key |-> k])

\* track(stream, data, auth_key), lines 210-220, the backlog having room
Track(s, size, auth) ==
    /\ ~backlog_full
    /\ stream_keys' = register(stream_keys, s, resolve(auth))
    /\ n_tracked' = n_tracked + 1
    /\ submitted' = [submitted EXCEPT ![s] = @ + 1]
    /\ last_auth' = [last_auth EXCEPT ![s] = auth]
    /\ origin' = Append(origin, s)
    /\ backlog' = [backlog EXCEPT ![s] = Append(@, [id |-> n_tracked + 1, size |-> size])]
    /\ UNCHANGED <<config_vars, is_run_worker, is_flush_data, is_flush_all, handler_vars,
                   pool, pool_running, worker_vars, t_pc, stop_vars, history_vars, created>>

\* TrackFull: track() while the backlog is full: the stream is registered at
\* lines 217-218, add_event at line 220 then fails and no record is queued
TrackFull(s, auth) ==
    /\ backlog_full
    /\ stream_keys' = register(stream_keys, s, resolve(auth))
    /\ last_auth' = [last_auth EXCEPT ![s] = auth]
    /\ UNCHANGED <<backlog, n_tracked, submitted, origin, config_vars, is_run_worker,
                   is_flush_data,
                   is_flush_all, handler_vars, pool, pool_running, worker_vars, t_pc,
                   stop_vars, history_vars, created>>

\* flush(), line 226
Flush ==
    /\ is_flush_data' = TRUE
    /\ UNCHANGED <<producer_vars, config_vars, is_run_worker, is_flush_all, handler_vars,
                   pool, pool_running, worker_vars, t_pc, stop_vars, history_vars, created>>

\* _flush_peroidcly, lines 236-246: wake up, raise the flag, test the while condition
TimerFire ==
    /\ t_pc = "sleep"
    /\ is_flush_all' = TRUE
    /\ t_pc' = IF is_run_worker THEN "sleep" ELSE "stopped"
    /\ sig_pending' = TRUE
    /\ UNCHANGED <<producer_vars, config_vars, is_run_worker, is_flush_data, handler_vars,
                   pool, pool_running, worker_vars, stop_vars, t_calls, created>>

\* -------------------------------------------------------- _tracker_handler
flush_guard_no_len(buf, s) == s \in DOMAIN buf

\* line 259: the test flush_data makes before it builds a task
flush_guard(buf, s) == s \in DOMAIN buf /\ Len(buf[s]) > 0

snapshot_alias(seq) == [list |-> "events_buffer", items |-> seq]

\* line 260: temp_buffer = list(events_buffer[stream]), a new list object with
\* the items of the buffer; list names the object the task's closure holds
snapshot(seq) == [list |-> "temp_buffer", items |-> seq]

\* the payloads the closure of a task reads (line 309, data=data) when the
\* buffers are buf: those of its own list, or of the buffer's list when it holds that
payloads(task, buf) ==
    IF task.list = "events_buffer"
    THEN (IF task.stream \in DOMAIN buf THEN buf[task.stream] ELSE <<>>)
    ELSE task.data

buffer_prepend(seq, d) == <<d>> \o seq

\* line 284: events_buffer[stream_name].append(event_object.data)
buffer_append(seq, d) == Append(seq, d)

\* line 286
bytes_reached(size) == size >= batch_bytes_size

count_exceeded(seq) == Len(seq) > batch_size

\* line 289
count_reached(seq) == Len(seq) >= batch_size

flush_always == TRUE

\* line 292
manual_flush_requested == is_flush_data

not_cleared(seq) == seq

\* line 261: del events_buffer[stream][:]
cleared(seq) == <<>>

\* flush_data(stream, auth_key), lines 257-263, on the handler's state
\* st = [buffer, size, pool, created]
flush_data(st, s, k) ==
    IF flush_guard(st.buffer, s)
    THEN LET temp_buffer == snapshot(st.buffer[s])
             task == [id |-> Len(st.created) + 1, stream |-> s, auth_key |-> k,
                      data |-> temp_buffer.items, list |-> temp_buffer.list]
         IN [buffer |-> [st.buffer EXCEPT ![s] = cleared(@)],
             size |-> [st.size EXCEPT ![s] = 0],
             pool |-> Append(st.pool, task),
             created |-> Append(st.created, task)]
    ELSE st

handler_state == [buffer |-> events_buffer, size |-> events_size, pool |-> pool,
                  created |-> created]

\* the per-task histories get an entry for every task flush_data makes
RECURSIVE Extend(_, _, _)
Extend(seq, n, v) == IF Len(seq) >= n THEN seq ELSE Extend(Append(seq, v), n, v)

Commit(st) ==
    /\ Len(st.pool) <= MaxPool
    /\ events_buffer' = st.buffer
    /\ events_size' = st.size
    /\ pool' = st.pool
    /\ created' = st.created
    /\ t_calls' = Extend(t_calls, Len(st.created), 0)
    /\ sig_pending' = sig_pending

\* lines 265-266 and 270: the while test and the branch on _is_flush_all
HandlerLoop ==
    /\ h_pc = "loop"
    /\ h_pc' = IF ~is_run_worker THEN "stopped"
               ELSE IF is_flush_all THEN "flushall" ELSE "drain"
    /\ h_i' = IF is_run_worker THEN 1 ELSE h_i
    /\ h_n' = IF is_run_worker THEN Len(stream_keys) ELSE h_n
    /\ sig_pending' = IF is_run_worker /\ is_flush_all THEN FALSE ELSE sig_pending
    /\ UNCHANGED <<producer_vars, config_vars, is_run_worker, is_flush_data, is_flush_all,
                   events_buffer, events_size, pool, pool_running, worker_vars, t_pc,
                   stop_vars, t_calls, created>>

\* lines 267-268: one turn of the flush-all loop
HandlerFlushAllStep ==
    /\ h_pc = "flushall"
    /\ h_i <= h_n
    /\ Commit(flush_data(handler_state, stream_keys[h_i].stream, stream_keys[h_i].key))
    /\ h_i' = h_i + 1
    /\ UNCHANGED <<producer_vars, config_vars, is_run_worker, is_flush_data, is_flush_all,
                   h_pc, h_n, pool_running, worker_vars, t_pc, stop_vars>>

\* line 269: the flush-all loop is over, the flag is cleared
HandlerFlushAllEnd ==
    /\ h_pc = "flushall"
    /\ h_i > h_n
    /\ is_flush_all' = FALSE
    /\ h_pc' = "loop"
    /\ UNCHANGED <<producer_vars, config_vars, is_run_worker, is_flush_data, events_buffer,
                   events_size, h_i, h_n, pool, pool_running, worker_vars, t_pc, stop_vars,
                   history_vars, created>>

\* lines 271-284: one turn of the drain loop up to the append
HandlerDrainGet ==
    /\ h_pc = "drain"
    /\ h_i <= h_n
    /\ LET s == stream_keys[h_i].stream IN
       IF backlog[s] = <<>>
       THEN /\ h_i' = h_i + 1
            /\ UNCHANGED <<backlog, events_buffer, events_size, h_pc>>
       ELSE LET d == Head(backlog[s])
                buf == IF s \in DOMAIN events_buffer THEN events_buffer[s] ELSE <<>>
                size == IF s \in DOMAIN events_size THEN events_size[s] ELSE 0
            IN /\ backlog' = [backlog EXCEPT ![s] = Tail(@)]
               /\ events_size' = [x \in DOMAIN events_size \cup {s} |->
                                     IF x = s THEN size + d.size ELSE events_size[x]]
               /\ events_buffer' = [x \in DOMAIN events_buffer \cup {s} |->
                                     IF x = s THEN buffer_append(buf, d) ELSE events_buffer[x]]
               /\ h_pc' = "check"
               /\ h_i' = h_i
    /\ UNCHANGED <<stream_keys, n_tracked, submitted, last_auth, origin, config_vars,
                   is_run_worker,
                   is_flush_data, is_flush_all, h_n, pool, pool_running, worker_vars, t_pc, stop_vars,
                   history_vars, created>>

\* lines 286-293: the three flush tests after the append
HandlerDrainCheck ==
    /\ h_pc = "check"
    /\ LET s == stream_keys[h_i].stream
           k == stream_keys[h_i].key
           st0 == handler_state
           st1 == IF bytes_reached(st0.size[s]) THEN flush_data(st0, s, k) ELSE st0
           st2 == IF count_reached(st1.buffer[s]) THEN flush_data(st1, s, k) ELSE st1
           st3 == IF manual_flush_requested THEN flush_data(st2, s, k) ELSE st2
       IN Commit(st3)
    /\ h_pc' = "drain"
    /\ h_i' = h_i + 1
    /\ UNCHANGED <<producer_vars, config_vars, is_run_worker, is_flush_data, is_flush_all,
                   h_n, pool_running, worker_vars, t_pc, stop_vars>>

\* lines 295-296: the drain loop is over, the manual flag is cleared
HandlerDrainEnd ==
    /\ h_pc = "drain"
    /\ h_i > h_n
    /\ is_flush_data' = FALSE
    /\ h_pc' = "loop"
    /\ UNCHANGED <<producer_vars, config_vars, is_run_worker, is_flush_all, events_buffer,
                   events_size, h_i, h_n, pool, pool_running, worker_vars, t_pc, stop_vars,
                   history_vars, created>>

\* lines 267 and 271: the for loops iterate self._stream_keys.items() without the
\* lock.  Python 2 iterates a copy; Python 3 raises RuntimeError at the next turn
\* when track() has inserted a stream meanwhile, which ends the handler thread.
HandlerIterError ==
    /\ h_pc \in {"flushall", "drain"}
    /\ Len(stream_keys) # h_n
    /\ h_pc' = "crashed"
    /\ UNCHANGED <<producer_vars, config_vars, is_run_worker, is_flush_data, is_flush_all,
                   events_buffer, events_size, h_i, h_n, pool, pool_running, worker_vars,
                   t_pc, stop_vars, history_vars, created>>

\* --------------------------------------------------------------- transport
\* Request.post, request.py lines 63-75, on what the HTTP session does: the
\* status of the Response it returns
post(o) ==
    IF o.kind = "ConnectionError" THEN 500
    ELSE IF o.kind = "RequestException" THEN 400
    ELSE o.status

\* Request.post, request.py lines 63-75: the error of the Response it returns
post_error(o) ==
    IF o.kind = "ConnectionError" THEN "No connection to server"
    ELSE IF o.kind = "RequestException" THEN "ex"
    ELSE IF 200 <= o.status /\ o.status < 400 THEN "None"
    ELSE "content"

\* IronSourceAtom.put_events: the Response of Request.post, or an exception of
\* its own
put_events(o) ==
    IF o.kind = "Exception" THEN [raised |-> TRUE, status |-> 0, error |-> "e"]
    ELSE [raised |-> FALSE, status |-> post(o), error |-> post_error(o)]

\* what the HTTP session may do for the next call made for task id
Answers(id) ==
    IF transport = "down" THEN {Answered(s) : s \in {x \in Statuses : x >= 500}}
    ELSE IF transport = "recover"
         THEN (IF t_calls[id] < retry_max_count THEN {Answered(503)} ELSE {Answered(200)})
         ELSE {Answered(s) : s \in Statuses} \cup {Failed(f) : f \in Failures}

\* ------------------------------------------------------------ _flush_data
\* line 307
may_attempt(attempt) == attempt < retry_max_count

is_success_upto_400(status) == 200 <= status /\ status <= 400

\* line 320
is_success(status) == 200 <= status /\ status < 400

\* line 319
is_final(status) == 200 <= status /\ status < 500

after_exception_retry == "retry"

\* line 312: _flush_data returns after it has reported the exception
after_exception == "return"

\* line 333
next_attempt(attempt) == attempt + 1

\* line 339: the closure of the requeued task holds the same stream, auth_key, data
requeued(task) == task

\* _error_log, lines 372-375: whether the callback's exception is caught
callback_caught(c) == c \in {"ok", "TypeError"}

Release(w) ==
    /\ w_pc' = [w_pc EXCEPT ![w] = "idle"]
    /\ w_task' = [w_task EXCEPT ![w] = NoTask]
    /\ w_attempt' = [w_attempt EXCEPT ![w] = 0]
    /\ w_calls' = [w_calls EXCEPT ![w] = 0]
    /\ w_after' = [w_after EXCEPT ![w] = "none"]
    /\ w_status' = [w_status EXCEPT ![w] = 0]
    /\ w_error' = [w_error EXCEPT ![w] = "none"]

\* BatchEventPool's worker takes a queued task and calls it: line 305
WorkerTake(w) ==
    /\ w_pc[w] = "idle"
    /\ pool_running
    /\ pool # <<>>
    /\ w_task' = [w_task EXCEPT ![w] = Head(pool)]
    /\ pool' = Tail(pool)
    /\ w_pc' = [w_pc EXCEPT ![w] = "attempt"]
    /\ w_attempt' = [w_attempt EXCEPT ![w] = 0]
    /\ UNCHANGED <<producer_vars, config_vars, is_run_worker, is_flush_data, is_flush_all,
                   handler_vars, pool_running, w_calls, w_after, w_status, w_error, t_pc,
                   stop_vars, history_vars, created>>

\* lines 307-334: the while test holds, put_events comes back with o, and
\* _flush_data goes on to the call of _error_log, the return or the backoff sleep
\* (time is not part of the state: the length of the sleep, get_duration below,
\* changes nothing but the moment WorkerWake happens)
WorkerAttempt(w, o) ==
    /\ w_pc[w] = "attempt"
    /\ may_attempt(w_attempt[w])
    /\ o \in Answers(w_task[w].id)
    /\ t_calls' = [t_calls EXCEPT ![w_task[w].id] =
                      IF transport = "recover" /\ @ < retry_max_count THEN @ + 1 ELSE @]
    /\ LET r == put_events(o) IN
       IF r.raised
       THEN \* lines 310-311
            /\ w_pc' = [w_pc EXCEPT ![w] = "callback"]
            /\ w_after' = [w_after EXCEPT ![w] = after_exception]
            /\ w_status' = [w_status EXCEPT ![w] = 400]
            /\ w_error' = [w_error EXCEPT ![w] = r.error]
            /\ w_calls' = [w_calls EXCEPT ![w] = @ + 1]
            /\ UNCHANGED <<w_task, w_attempt>>
       ELSE IF is_final(r.status)
       THEN IF is_success(r.status)
            THEN \* lines 320-323, 327
                 Release(w)
            ELSE \* lines 324-326
                 /\ w_pc' = [w_pc EXCEPT ![w] = "callback"]
                 /\ w_after' = [w_after EXCEPT ![w] = "return"]
                 /\ w_status' = [w_status EXCEPT ![w] = r.status]
                 /\ w_error' = [w_error EXCEPT ![w] = r.error]
                 /\ w_calls' = [w_calls EXCEPT ![w] = @ + 1]
                 /\ UNCHANGED <<w_task, w_attempt>>
       ELSE \* lines 331-334
            /\ w_attempt' = [w_attempt EXCEPT ![w] = next_attempt(@)]
            /\ w_calls' = [w_calls EXCEPT ![w] = @ + 1]
            /\ w_pc' = [w_pc EXCEPT ![w] = "sleep"]
            /\ w_status' = [w_status EXCEPT ![w] = r.status]
            /\ w_error' = [w_error EXCEPT ![w] = r.error]
            /\ UNCHANGED <<w_task, w_after>>
    /\ UNCHANGED <<producer_vars, config_vars, is_run_worker, is_flush_data, is_flush_all,
                   handler_vars, pool, pool_running, t_pc, stop_vars, sig_pending, created>>

\* line 335: the sleep is over, _error_log is called
WorkerWake(w) ==
    /\ w_pc[w] = "sleep"
    /\ w_pc' = [w_pc EXCEPT ![w] = "callback"]
    /\ w_after' = [w_after EXCEPT ![w] = "retry"]
    /\ UNCHANGED <<producer_vars, config_vars, is_run_worker, is_flush_data, is_flush_all,
                   handler_vars, pool, pool_running, w_task, w_attempt, w_calls, w_status, w_error,
                   t_pc,
                   stop_vars, history_vars, created>>

\* _error_log, lines 372-380: the callback returns or raises c; lines 312, 327
\* return, line 335 is followed by the while test; an exception _error_log does
\* not catch leaves _flush_data
WorkerCallback(w, c) ==
    /\ w_pc[w] = "callback"
    /\ IF callback_caught(c) /\ w_after[w] = "retry"
       THEN /\ w_pc' = [w_pc EXCEPT ![w] = "attempt"]
            /\ w_after' = [w_after EXCEPT ![w] = "none"]
            /\ w_status' = [w_status EXCEPT ![w] = 0]
            /\ w_error' = [w_error EXCEPT ![w] = "none"]
            /\ UNCHANGED <<w_task, w_attempt, w_calls>>
       ELSE Release(w)
    /\ UNCHANGED <<producer_vars, config_vars, is_run_worker, is_flush_data, is_flush_all,
                   handler_vars, pool, pool_running, t_pc, stop_vars, history_vars, created>>

\* lines 337-339: the while condition is false, the else clause queues the data back
WorkerRequeue(w) ==
    /\ w_pc[w] = "attempt"
    /\ ~may_attempt(w_attempt[w])
    /\ pool_has_room
    /\ pool' = Append(pool, requeued(w_task[w]))
    /\ Release(w)
    /\ UNCHANGED <<producer_vars, config_vars, is_run_worker, is_flush_data, is_flush_all,
                   handler_vars, pool_running, t_pc, stop_vars, history_vars, created>>

\* ---------------------------------------------------------- _get_duration
Min(a, b) == IF a <= b THEN a ELSE b

expo_backoff_uncapped(attempt) == (2 ^ attempt) * backoff_base

\* line 348
expo_backoff(attempt) == Min(retry_max_time, (2 ^ attempt) * backoff_base)

\* random.uniform(a, b): a + (b - a) * random(), the random number being k / Grain
uniform(a, b, k) == a + ((b - a) * k) \div Grain

\* line 349, in whole milliseconds
get_duration(attempt, k) == uniform(0, expo_backoff(attempt), k)

\* a call of _get_duration(a), lines 348-349
GetDuration(a, k) ==
    /\ bo_attempt' = a
    /\ duration' = get_duration(a, k)
    /\ UNCHANGED <<producer_vars, batch_size, batch_bytes_size, retry_max_count, transport,
                   retry_max_time, backoff_base, is_run_worker, is_flush_data, is_flush_all,
                   handler_vars, pool, pool_running, worker_vars, t_pc, stop_vars,
                   history_vars, created>>

\* ------------------------------------------------------------------- stop
StopMaxWait == 5

stop_condition_no_timeout == pool_is_empty /\ backlog_is_empty

\* line 102
stop_condition == (pool_is_empty /\ backlog_is_empty) \/ stop_i = StopMaxWait

\* stop(), lines 97-99
StopBegin ==
    /\ stop_pc = "idle"
    /\ is_flush_all' = TRUE
    /\ stop_i' = 0
    /\ stop_pc' = "poll"
    /\ n_at_stop' = n_tracked
    /\ sig_pending' = TRUE
    /\ UNCHANGED <<producer_vars, config_vars, is_run_worker, is_flush_data, handler_vars,
                   pool, pool_running, worker_vars, t_pc, t_calls, created>>

\* stop(), lines 100-108: one turn of the polling loop
StopPoll ==
    /\ stop_pc = "poll"
    /\ IF stop_condition
       THEN /\ is_run_worker' = FALSE
            /\ pool_running' = FALSE
            /\ stop_pc' = "done"
            /\ stop_i' = stop_i
       ELSE /\ stop_i' = stop_i + 1
            /\ UNCHANGED <<is_run_worker, pool_running, stop_pc>>
    /\ UNCHANGED <<producer_vars, config_vars, is_flush_data, is_flush_all, handler_vars,
                   pool, worker_vars, t_pc, history_vars, created, n_at_stop>>

\* ------------------------------------------------------- specifications
Producer(limit, sizes, auths) ==
    \/ \E s \in Streams, z \in sizes, a \in auths : n_tracked < limit /\ Track(s, z, a)
    \/ \E s \in Streams, a \in auths : TrackFull(s, a)

Signals ==
    \/ Flush
    \/ TimerFire

Handler ==
    \/ HandlerLoop
    \/ HandlerFlushAllStep
    \/ HandlerFlushAllEnd
    \/ HandlerDrainGet
    \/ HandlerDrainCheck
    \/ HandlerDrainEnd
    \/ HandlerIterError

Delivery ==
    \/ \E w \in Workers : WorkerTake(w)
    \/ \E w \in Workers, o \in SessionOutcomes : WorkerAttempt(w, o)
    \/ \E w \in Workers : WorkerWake(w)
    \/ \E w \in Workers, c \in CallbackOutcomes : WorkerCallback(w, c)
    \/ \E w \in Workers : WorkerRequeue(w)

Stop ==
    \/ StopBegin
    \/ StopPoll

\* Spec: the assembler under every record size and both count thresholds, the
\* default credential, one retry, any endpoint behaviour; stop() is not called
Init == InitWith(BatchSizes, BatchBytesSizes, {1}, "any") /\ BackoffWith({60000}, {500})
Next == Producer(MaxTrack, DataSizes, {""}) \/ Signals \/ Handler \/ Delivery
Spec == Init /\ [][Next]_vars

\* SpecDelivery: the delivery passes under every retry count and credential,
\* records of one size; stop() is not called
InitDelivery == InitWith({MaxBatchSize}, BatchBytesSizes, RetryCounts, "any") /\ BackoffWith({60000}, {500})
NextDelivery == Producer(DeliveryTrack, {1}, AuthArgs) \/ Signals \/ Handler \/ Delivery
SpecDelivery == InitDelivery /\ [][NextDelivery]_vars

\* SpecDown: SpecDelivery with an endpoint that answers every call with a
\* status >= 500
InitDown == InitWith({MaxBatchSize}, BatchBytesSizes, RetryCounts, "down") /\ BackoffWith({60000}, {500})
SpecDown == InitDown /\ [][NextDelivery]_vars

\* SpecRecover: SpecDelivery with an endpoint that answers the first
\* retry_max_count calls made for a batch with 503 and the later ones with 200
InitRecover == InitWith({MaxBatchSize}, BatchBytesSizes, RetryCounts, "recover") /\ BackoffWith({60000}, {500})
SpecRecover == InitRecover /\ [][NextDelivery]_vars

\* SpecStop: the whole tracker with stop(), StopTrack records of one size, the
\* default credential, one retry
InitStop == InitWith({MaxBatchSize}, BatchBytesSizes, {1}, "any") /\ BackoffWith({60000}, {500})
NextStop == Producer(StopTrack, {1}, {""}) \/ Signals \/ Handler \/ Delivery \/ Stop
SpecStop == InitStop /\ [][NextStop]_vars

\* SpecStopFair: SpecStop with a stop() thread that is scheduled: is_empty() and
\* time.sleep(1) return
SpecStopFair == SpecStop /\ WF_vars(StopPoll)

\* SpecQuiet: no flush signal is ever raised (no flush(), a timer that does not
\* fire, no stop()), count thresholds up to MaxQuietBatch, records of one byte
\* and a byte threshold that QuietTrack of them do not reach
InitQuiet == InitWith(1..MaxQuietBatch, {BytesUnreached}, {1}, "any") /\ BackoffWith({60000}, {500})
HandlerQuiet ==
    \/ HandlerLoop
    \/ HandlerDrainGet
    \/ HandlerDrainCheck
    \/ HandlerDrainEnd
    \/ HandlerIterError
NextQuiet == Producer(QuietTrack, {1}, {""}) \/ HandlerQuiet \/ Delivery
SpecQuiet == InitQuiet /\ [][NextQuiet]_vars

\* SpecBackoff: _get_duration for every attempt up to MaxAttempt, under every
\* ceiling of RetryMaxTimes and base of BackoffBases
InitBackoff ==
    InitWith({MaxBatchSize}, BatchBytesSizes, {1}, "any") /\ BackoffWith(RetryMaxTimes, BackoffBases)
NextBackoff == \E a \in 0..MaxAttempt, k \in 0..Grain : GetDuration(a, k)
SpecBackoff == InitBackoff /\ [][NextBackoff]_vars

\* ------------------------------------------------------------------ claims
TasksOf(s) == {i \in 1..Len(created) : created[i].stream = s}
Registered == {stream_keys[i].stream : i \in 1..Len(stream_keys)}
Buffered(s) == IF s \in DOMAIN events_buffer THEN events_buffer[s] ELSE <<>>

\* C1: in every Delivery Task the payloads stand in the order track() submitted
\* them, and every payload of an earlier task of a stream was submitted before
\* every payload of a later task of that stream
C1_OrderPreserved ==
    \A i, j \in 1..Len(created) :
        created[i].stream = created[j].stream =>
            \A a \in 1..Len(created[i].data), b \in 1..Len(created[j].data) :
                (i < j \/ (i = j /\ a < b)) => created[i].data[a].id < created[j].data[b].id

C1_Witness ==
    \E i, j \in 1..Len(created) :
        /\ i < j
        /\ created[i].stream = created[j].stream
        /\ Len(created[i].data) >= 2

\* C2: once the handler has dealt with an appended record, every buffer holds
\* fewer than batch_size payloads and fewer than batch_bytes_size bytes; when the
\* append reached a threshold, that turn of the loop made exactly one task out of
\* the whole buffer, emptied the buffer and set its byte counter to 0
C2_ThresholdFlush ==
    [][ /\ h_pc' # "check" =>
              \A s \in DOMAIN events_buffer' :
                  /\ Len(events_buffer'[s]) < batch_size
                  /\ events_size'[s] < batch_bytes_size
        /\ (h_pc = "check" /\ h_pc' # "check") =>
              LET s == stream_keys[h_i].stream IN
              (events_size[s] >= batch_bytes_size \/ Len(events_buffer[s]) >= batch_size) =>
                  /\ Len(created') = Len(created) + 1
                  /\ created'[Len(created')].stream = s
                  /\ created'[Len(created')].data = events_buffer[s]
                  /\ pool' = Append(pool, created'[Len(created')])
                  /\ events_buffer'[s] = <<>>
                  /\ events_size'[s] = 0
      ]_vars

C2_Witness ==
    /\ h_pc = "drain"
    /\ ~is_flush_data
    /\ \E i \in 1..Len(created) :
          /\ SumSizes(created[i].data) >= batch_bytes_size
          /\ Len(created[i].data) < batch_size
    /\ \E i \in 1..Len(created) :
          /\ SumSizes(created[i].data) < batch_bytes_size
          /\ Len(created[i].data) = batch_size

\* C3: a task is made for a stream only in a state where the stream's byte
\* counter has reached batch_bytes_size, or its buffer has reached batch_size,
\* or _is_flush_data or _is_flush_all is set
C3_FlushOnlyOnCondition ==
    [][ \A i \in (Len(created) + 1)..Len(created') :
            LET s == created'[i].stream IN
            /\ s \in DOMAIN events_buffer
            /\ \/ events_size[s] >= batch_bytes_size
               \/ Len(events_buffer[s]) >= batch_size
               \/ is_flush_data
               \/ is_flush_all
      ]_vars

C3_Witness ==
    /\ \E i \in 1..Len(created) :
          /\ SumSizes(created[i].data) < batch_bytes_size
          /\ Len(created[i].data) < batch_size
    /\ \E i \in 1..Len(created) : Len(created[i].data) >= batch_size

\* C4: with no flush signal and a byte threshold that is never reached, once the
\* backlog of a stream is drained the stream has floor(N / batch_size) tasks of
\* exactly batch_size payloads each and N mod batch_size payloads in its buffer,
\* N being the number of records submitted to the stream
Drained(s) ==
    /\ backlog[s] = <<>>
    /\ ~(h_pc = "check" /\ stream_keys[h_i].stream = s)

BytesNeverReached(s) ==
    \A i \in TasksOf(s) : SumSizes(created[i].data) < batch_bytes_size

C4_CountBatches ==
    \A s \in Streams :
        (Drained(s) /\ BytesNeverReached(s)) =>
            /\ Cardinality(TasksOf(s)) = submitted[s] \div batch_size
            /\ \A i \in TasksOf(s) : Len(created[i].data) = batch_size
            /\ Len(Buffered(s)) = submitted[s] % batch_size

C4_Witness ==
    \E s \in Streams :
        /\ Drained(s)
        /\ batch_size = 3
        /\ submitted[s] = 5
        /\ Cardinality(TasksOf(s)) = 1
        /\ Len(Buffered(s)) = 2

\* C5: no task carries an empty batch: a flush of a stream whose buffer is empty
\* or missing makes no task and hands nothing to the pool, and one turn of the
\* handler makes at most one task
C5_NoEmptyTask ==
    [][ /\ \A i \in 1..Len(created') : Len(created'[i].data) > 0
        /\ \A k \in 1..Len(pool') : Len(pool'[k].data) > 0
        /\ Len(created') <= Len(created) + 1
        /\ (h_pc = "flushall" /\ h_i' = h_i + 1
              /\ Buffered(stream_keys[h_i].stream) = <<>>) =>
                  (created' = created /\ pool' = pool)
      ]_vars

C5_Witness ==
    /\ h_pc = "flushall"
    /\ h_i > h_n
    /\ h_n = 2
    /\ batch_size = 1
    /\ Len(created) = 1
    /\ \E s \in Registered : s \notin DOMAIN events_buffer
    /\ \E s \in Registered : s \in DOMAIN events_buffer /\ events_buffer[s] = <<>>

\* C6: a raising of _is_flush_all is not lost: from the moment the timer (or
\* stop()) raises the flag until the running handler begins a flush-all pass,
\* the flag stays up, also when it was raised during a flush-all pass
C6_SignalNotLost ==
    (sig_pending /\ h_pc \notin {"stopped", "crashed"}) => is_flush_all

\* C7: when the handler clears _is_flush_data, every registered stream's buffer
\* has been flushed, whether or not the stream had a record in the backlog
C7_ManualFlushAll ==
    [][ (is_flush_data /\ ~is_flush_data') =>
            \A s \in Registered : s \in DOMAIN events_buffer' => events_buffer'[s] = <<>>
      ]_vars

PassEnds(w) == w_pc[w] # "idle" /\ w_pc'[w] = "idle"
PassBegins(w) == w_pc[w] = "idle" /\ w_pc'[w] # "idle"
Gone(id) ==
    /\ \A k \in 1..Len(pool') : pool'[k].id # id
    /\ \A w \in Workers : w_task'[w].id # id

\* C8: with an endpoint that always answers >= 500, every task made is at every
\* moment queued in the pool or held by a worker; a delivery pass ends only after
\* exactly retry_max_count put_events calls and by queueing the same stream,
\* credential and payloads again; a pass begins with attempt 0
C8_RequeueNeverDrop ==
    [][ /\ \A i \in 1..Len(created') : ~Gone(i)
        /\ \A w \in Workers :
              PassEnds(w) =>
                  /\ w_calls[w] = retry_max_count
                  /\ pool' = Append(pool, w_task[w])
        /\ \A w \in Workers :
              PassBegins(w) => (w_attempt'[w] = 0 /\ w_calls'[w] = 0)
      ]_vars

\* C9: with an endpoint that answers the first retry_max_count calls for a batch
\* with 503 and then 200, a delivery pass ends either by queueing the batch again
\* or on the success response, after which the batch is neither queued nor held
C9_DeliveredOnce ==
    [][ \A w \in Workers :
            PassEnds(w) =>
                \/ pool' = Append(pool, w_task[w])
                \/ /\ w_pc[w] = "attempt"
                   /\ w_attempt[w] < retry_max_count
                   /\ t_calls[w_task[w].id] >= retry_max_count
                   /\ Gone(w_task[w].id)
      ]_vars

\* C10: a response with a status in [400, 500) ends the delivery pass: the
\* callback is called once with that status, and when it is over (whatever it
\* did) the worker is free, nothing was queued, and the batch is neither queued
\* nor held, so that no call and no requeue can follow
C10_ClientErrorTerminal ==
    [][ \A w \in Workers :
          /\ \A o \in SessionOutcomes :
                (o.kind = "status" /\ 400 <= o.status /\ o.status < 500
                   /\ WorkerAttempt(w, o)) =>
                      /\ w_pc'[w] = "callback"
                      /\ w_after'[w] = "return"
                      /\ w_status'[w] = o.status
                      /\ pool' = pool
          /\ (w_pc[w] = "callback" /\ w_after[w] = "return" /\ w_pc'[w] # "callback") =>
                /\ w_pc'[w] = "idle"
                /\ pool' = pool
                /\ Gone(w_task[w].id)
      ]_vars

C10_Witness ==
    \E w \in Workers :
        /\ w_pc[w] = "callback"
        /\ w_after[w] = "return"
        /\ w_status[w] = 499
        /\ w_attempt[w] = 1

\* C11: when put_events raises, _error_log is called once, with status 400 and
\* the exception; the attempt counter is not advanced, no backoff sleep follows,
\* and when the callback is over (whatever it did) the worker is free, nothing
\* was queued and the batch is neither queued nor held
C11_ExceptionTerminal ==
    [][ \A w \in Workers :
          /\ \A o \in SessionOutcomes :
                (put_events(o).raised /\ WorkerAttempt(w, o)) =>
                      /\ w_pc'[w] = "callback"
                      /\ w_after'[w] = "return"
                      /\ w_error'[w] = "e"
                      /\ w_attempt'[w] = w_attempt[w]
                      /\ pool' = pool
          /\ (w_pc[w] = "callback" /\ w_error[w] = "e" /\ w_pc'[w] # "callback") =>
                /\ w_pc'[w] = "idle"
                /\ pool' = pool
                /\ Gone(w_task[w].id)
      ]_vars

C11_Witness ==
    \E w \in Workers :
        /\ w_pc[w] = "callback"
        /\ w_error[w] = "e"
        /\ w_status[w] = 400
        /\ w_attempt[w] = 1
        /\ retry_max_count = 2

\* C12: a connection error of the HTTP session ends the delivery pass: it is
\* reported through _error_log from where _flush_data returns, the attempt
\* counter is not advanced, no backoff sleep follows and nothing is queued
C12_ConnectivityTerminal ==
    [][ \A w \in Workers, o \in SessionOutcomes :
            (o.kind = "ConnectionError" /\ WorkerAttempt(w, o)) =>
                /\ w_pc'[w] = "callback"
                /\ w_after'[w] = "return"
                /\ w_attempt'[w] = w_attempt[w]
                /\ pool' = pool
      ]_vars

\* C13: whatever the callback raises, the delivery pass goes on as if it had
\* returned: after _error_log at line 335 the while test follows with the batch
\* still held, and the pass ends by the return of lines 312, 327 only
C13_CallbackCaught ==
    [][ \A w \in Workers :
            (w_pc[w] = "callback" /\ w_after[w] = "retry" /\ w_pc'[w] # "callback") =>
                /\ w_pc'[w] = "attempt"
                /\ w_task'[w] = w_task[w]
                /\ w_attempt'[w] = w_attempt[w]
      ]_vars

\* C14: the duration _get_duration(a) returns is at least 0, at most
\* retry_max_time and at most base * 2^a, for every attempt a >= 0
C14_BackoffBound ==
    bo_attempt >= 0 =>
        /\ 0 <= duration
        /\ duration <= retry_max_time
        /\ duration <= backoff_base * (2 ^ bo_attempt)

C14_Witness ==
    /\ bo_attempt = 20
    /\ backoff_base = 500
    /\ retry_max_time = 60000
    /\ duration = 60000

Iterating == h_pc \in {"flushall", "drain", "check"}

\* C15: track() never inserts a stream into _stream_keys while the handler is
\* inside one of its loops over _stream_keys
C15_RegistryExclusive ==
    [][ stream_keys' # stream_keys => ~Iterating ]_vars

KeyOf(keys, s) == (CHOOSE i \in 1..Len(keys) : keys[i].stream = s)

\* C16: a stream stands once in _stream_keys; a track() call leaves every entry
\* that is there as it is, whatever its auth_key; every task carries the
\* credential its stream is registered with
C16_FirstCredentialKept ==
    [][ /\ Len(stream_keys') >= Len(stream_keys)
        /\ \A i \in 1..Len(stream_keys) : stream_keys'[i] = stream_keys[i]
        /\ \A i, j \in 1..Len(stream_keys') :
              stream_keys'[i].stream = stream_keys'[j].stream => i = j
        /\ \A i \in 1..Len(created') :
              /\ HasStream(stream_keys', created'[i].stream)
              /\ created'[i].auth_key
                   = stream_keys'[KeyOf(stream_keys', created'[i].stream)].key
      ]_vars

C16_Witness ==
    \E s \in Streams :
        /\ HasStream(stream_keys, s)
        /\ stream_keys[KeyOf(stream_keys, s)].key = get_auth
        /\ last_auth[s] = "k1"
        /\ \E i \in TasksOf(s) : Len(created[i].data) = 2 /\ created[i].auth_key = get_auth

C18_TaskSnapshot ==
    [][ /\ \A i \in 1..Len(created) :
              /\ created'[i].stream = created[i].stream
              /\ created'[i].auth_key = created[i].auth_key
              /\ payloads(created'[i], events_buffer') = payloads(created[i], events_buffer)
        /\ \A i \in (Len(created) + 1)..Len(created') :
              LET s == created'[i].stream IN
              /\ created'[i].list # "events_buffer"
              /\ payloads(created'[i], events_buffer') = events_buffer[s]
              /\ events_buffer'[s] = <<>>
              /\ events_size'[s] = 0
              /\ pool' = Append(pool, created'[i])
      ]_vars

C18_Witness ==
    \E s \in Streams :
        /\ Cardinality(TasksOf(s)) = 2
        /\ Buffered(s) # <<>>
        /\ \E k \in 1..Len(pool) : pool[k].stream = s

InBacklog(id) == \E s \in Streams : \E k \in 1..Len(backlog[s]) : backlog[s][k].id = id

\* the places where record id is: position k of the buffer of stream s, position
\* k of the batch of task i
BufferPlaces(id) ==
    {p \in (DOMAIN events_buffer) \X (1..n_tracked) :
        p[2] <= Len(events_buffer[p[1]]) /\ events_buffer[p[1]][p[2]].id = id}

TaskPlaces(id) ==
    {p \in (1..Len(created)) \X (1..n_tracked) :
        p[2] <= Len(created[p[1]].data) /\ created[p[1]].data[p[2]].id = id}

\* C19: a record that is still in the backlog is in no buffer and in no task; a
\* record taken from the backlog is in exactly one place, a buffer or the batch
\* of a task, and that place belongs to the stream it was submitted to
C19_Conservation ==
    \A id \in 1..n_tracked :
        IF InBacklog(id)
        THEN BufferPlaces(id) = {} /\ TaskPlaces(id) = {}
        ELSE /\ Cardinality(BufferPlaces(id)) + Cardinality(TaskPlaces(id)) = 1
             /\ \A p \in BufferPlaces(id) : p[1] = origin[id]
             /\ \A p \in TaskPlaces(id) : created[p[1]].stream = origin[id]

C19_Witness ==
    /\ batch_size = 2
    /\ \E i \in 1..Len(created) :
          /\ Len(created[i].data) = batch_size
          /\ SumSizes(created[i].data) >= batch_bytes_size
          /\ SumSizes(SubSeq(created[i].data, 1, 1)) < batch_bytes_size
    /\ \E s \in DOMAIN events_buffer : events_buffer[s] # <<>>

\* C20: when stop() has ended on finding the pool and the backlog empty, before
\* its counter reached 5, and the handler has halted, no buffer holds a record
\* that track() accepted before stop() was called
C20_StopLeavesNoBuffered ==
    (stop_pc = "done" /\ stop_i < StopMaxWait /\ h_pc = "stopped") =>
        \A s \in DOMAIN events_buffer :
            \A k \in 1..Len(events_buffer[s]) : events_buffer[s][k].id > n_at_stop
====
